---- MODULE Spec2Model ----
(***************************************************************************)
(* Model of proyecto.py, a Streamlit dashboard script.  One run of the     *)
(* script renders the page chosen in the sidebar.  The external market     *)
(* data provider (yf.download) is the environment: for every ticker it     *)
(* fails a number of times and then delivers a series.                     *)
(***************************************************************************)
EXTENDS Integers, Sequences, FiniteSets, TLC

(* ------------------------------ bounds --------------------------------- *)
\* number of tickers of the small universes whose fetch outcomes are all free
NSmall == 6
\* number of tickers of the large universe (more than 100 + 5 entries)
NLarge == 106
\* number of tickers of the large universe whose fetch outcome is free
NFreeLarge == 2
\* volatilities the provider's series can have are 1..MaxVol
MaxVol == 2
\* the provider fails at most MaxFails times in a row for one ticker
MaxFails == 4
\* the direct calls of load_data pass max_retries in 0..MaxRetriesArg
MaxRetriesArg == 4
\* number of direct calls of load_data in a row
MaxCalls == 2
\* number of sector ETFs of the Sector Analysis page (11 in the source)
NEtf == 2
\* the return series averaged on their own hold at most MaxCells entries
MaxCells == 6
\* the price series projected on their own have at most MaxPoints entries
MaxPoints == 4

(* ------------------------- program constants --------------------------- *)
DefaultMaxRetries == 3
RetryDelay == 5
AggressiveN == 5
LowRiskN == 100
SectorTopN == 2

(* ------------------------------ tickers -------------------------------- *)
\* '^GSPC'
GSPC == 0
\* the ETFs of the sectors dict of the Sector Analysis page
EtfTickers == [i \in 1..NEtf |-> 0 - i]
\* the tickers a script with a universe of n tickers can fetch
Known(n) == (0 - NEtf)..n
NoTicker == 0 - NEtf - 1

Pages == {"S&P 500", "Sector Analysis", "Stock Analysis",
          "Portfolio Comparison", "3-Year Prediction"}

Min(a, b) == IF a < b THEN a ELSE b
Max(a, b) == IF a > b THEN a ELSE b

(* --------------------------- python values ----------------------------- *)
None == [kind |-> "None", vol |-> 0, open |-> 0, close |-> 0, att |-> 0]
\* the cache has no entry for the key
Miss == [kind |-> "miss", vol |-> 0, open |-> 0, close |-> 0, att |-> 0]
\* a non-empty DataFrame: the series s delivered by the att-th contact,
\* with its volatility, its first Open and its last Close
DataFrame(s, k) ==
    [kind |-> "data", vol |-> s.vol, open |-> s.open, close |-> s.close,
     att |-> k]

\* s[:k]
SliceFirst(s, k) == SubSeq(s, 1, Min(k, Len(s)))
\* s[-k:]
SliceLast(s, k) == SubSeq(s, Max(1, Len(s) - k + 1), Len(s))

\* a dict is the sequence of its <<key, value>> items in insertion order
DictHas(d, k) == \E i \in DOMAIN d : d[i][1] = k
DictGet(d, k) == d[CHOOSE i \in DOMAIN d : d[i][1] = k][2]
\* d[k] = v: an existing key keeps its position and takes the new value
DictSet(d, k, v) ==
    IF DictHas(d, k)
    THEN [i \in DOMAIN d |-> IF d[i][1] = k THEN <<k, v>> ELSE d[i]]
    ELSE Append(d, <<k, v>>)
DictKeys(d) == [i \in DOMAIN d |-> d[i][1]]

\* the indices of s, in order
Indices(s) == [i \in 1..Len(s) |-> i]
\* the indices at which an element of s occurs for the first time
FirstOccurrences(s) ==
    SelectSeq(Indices(s), LAMBDA i : \A j \in 1..(i - 1) : s[j] # s[i])

\* a dict display {k1: v1, k2: v2, ...}: a key stands where it is first
\* written and has the value written last
DictLiteral(entries) ==
    LET keys == [i \in DOMAIN entries |-> entries[i][1]]
        first == FirstOccurrences(keys)
        last(k) == CHOOSE i \in DOMAIN entries :
                      /\ keys[i] = k
                      /\ \A j \in DOMAIN entries : keys[j] = k => j <= i
    IN [n \in DOMAIN first |->
           <<keys[first[n]], entries[last(keys[first[n]])][2]>>]

(* ------------------------------- floats -------------------------------- *)
\* a float is modelled as the exact rational it stands for, or inf, or nan:
\* rounding errors are left out
Abs(x) == IF x < 0 THEN 0 - x ELSE x

RECURSIVE Gcd(_, _)
Gcd(a, b) == IF b = 0 THEN a ELSE Gcd(b, a % b)

\* the float n / d for d # 0, in lowest terms with a positive denominator
Float(n, d) ==
    LET g == Gcd(Abs(n), Abs(d))
        sign == IF d < 0 THEN 0 - 1 ELSE 1
    IN [kind |-> "finite", num |-> sign * (n \div g), den |-> sign * (d \div g)]
NaN == [kind |-> "nan", num |-> 0, den |-> 0]
Inf == [kind |-> "inf", num |-> 1, den |-> 0]
NegInf == [kind |-> "inf", num |-> 0 - 1, den |-> 0]
IsFinite(x) == x.kind = "finite"

\* x + y, x - y, x * y of floats
FAdd(x, y) ==
    IF x.kind = "nan" \/ y.kind = "nan" THEN NaN
    ELSE IF x.kind = "inf" /\ y.kind = "inf"
         THEN (IF x.num = y.num THEN x ELSE NaN)
    ELSE IF x.kind = "inf" THEN x
    ELSE IF y.kind = "inf" THEN y
    ELSE Float(x.num * y.den + y.num * x.den, x.den * y.den)
FNeg(x) == [x EXCEPT !.num = 0 - @]
FSub(x, y) == FAdd(x, FNeg(y))
FMul(x, y) ==
    IF x.kind = "nan" \/ y.kind = "nan" THEN NaN
    ELSE IF x.kind = "inf" \/ y.kind = "inf"
         THEN (IF x.num = 0 \/ y.num = 0 THEN NaN
               ELSE IF (x.num > 0) = (y.num > 0) THEN Inf ELSE NegInf)
    ELSE Float(x.num * y.num, x.den * y.den)
\* x / y of numpy floats: a division by zero gives inf or nan, with a
\* warning and no exception
FDiv(x, y) ==
    IF x.kind = "nan" \/ y.kind = "nan" THEN NaN
    ELSE IF x.kind = "inf"
         THEN (IF y.kind = "inf" THEN NaN
               ELSE IF (x.num > 0) = (y.num >= 0) THEN Inf ELSE NegInf)
    ELSE IF y.kind = "inf" THEN Float(0, 1)
    ELSE IF y.num = 0
         THEN (IF x.num = 0 THEN NaN ELSE IF x.num > 0 THEN Inf ELSE NegInf)
    ELSE Float(x.num * y.den, x.den * y.num)

(* ---------------------------- statistics ------------------------------- *)
\* x ** (1 / num_years) for the num_years > 0 of lines 92, 181 and 655:
\* exact for 0, 1, inf and nan; another root is not evaluated
FRoot(x) ==
    IF x.kind # "finite" \/ x.num = 0 \/ x.num = x.den THEN x
    ELSE [kind |-> "irrational", num |-> x.num, den |-> x.den]

\* n / d rounded to the nearest integer, for d > 0
RoundDiv(n, d) == (2 * n + d) \div (2 * d)

\* f"{x:.2f}%": the hundredths of a number, or the text inf, -inf or nan
Format(x) ==
    IF IsFinite(x)
    THEN [text |-> "number", hundredths |-> RoundDiv(100 * x.num, x.den)]
    ELSE [text |-> IF x = NegInf THEN "-inf" ELSE x.kind, hundredths |-> 0]

\* lines 84-93, 178-182 and 647-656: the total return and the CAGR of a
\* frame as the summary table shows them
Statistics(data) ==
    LET opening_value == Float(data.open, 1)
        closing_value == Float(data.close, 1)
        total_return ==
            FMul(FDiv(FSub(closing_value, opening_value), opening_value),
                 Float(100, 1))
        root == FRoot(FDiv(closing_value, opening_value))
        cagr == IF root.kind = "irrational" THEN root
                ELSE FMul(FSub(root, Float(1, 1)), Float(100, 1))
    IN [opening_value |-> data.open,
        total_return |-> Format(total_return),
        cagr |-> Format(cagr)]

(* ------------------------------ universe ------------------------------- *)
\* the sector label of the i-th ticker of the table: a sector of up to 5,
\* a sector of up to 3 and, in the large universe, a sector of all the others
SectorLabel(i) == IF i <= 5 THEN 1 ELSE IF i <= 8 THEN 2 ELSE 3

\* the display of sp500_companies with n distinct tickers, each mapped to
\* [name, sector]; like the source table it repeats a key (the first one)
CompaniesLiteral(n) ==
    [i \in 1..(n + 1) |->
        LET t == IF i = n + 1 THEN 1 ELSE i
        IN <<t, <<t, SectorLabel(t)>>>>]

(* ------------------------------- state --------------------------------- *)
VARIABLES
    selection,            \* the page chosen in the sidebar
    sp500_companies,      \* dict ticker -> [name, sector]
    series,               \* provider: each ticker's series (vol, open, close)
    fails,                \* provider: failures still to come for each ticker
    downloads,            \* provider: number of yf.download calls per ticker
    cache1,               \* st.cache_data of the retrying load_data
    cache2,               \* st.cache_data of the second load_data
    ld_state,             \* retrying load_data: "idle", "running", "returned"
    ld_ticker,            \* retrying load_data: argument ticker
    max_retries,          \* retrying load_data: argument max_retries
    attempt,              \* retrying load_data: local attempt
    ld_result,            \* retrying load_data: returned value
    events,               \* downloads, st.warning, time.sleep, st.error, in order
    pc,                   \* position of the script
    exception,            \* the unhandled exception that ended the run
    loaded,               \* sp500 / sector_data / stock_data: dict of results
    volatilities,         \* dict ticker -> volatility
    sorted_volatilities,  \* list of (ticker, volatility)
    portfolio_data,       \* Portfolio Comparison: dict name -> tickers
    portfolios,           \* 3-Year Prediction: dict name -> tickers
    output,               \* what the page has rendered, in order
    ticker_choice,        \* Stock Analysis: the ticker picked in the selectbox
    locals                \* the numeric locals of a computation run on its own

provider == <<series, fails, downloads>>
loader == <<ld_state, ld_ticker, max_retries, attempt, ld_result>>
ranking == <<volatilities, sorted_volatilities, portfolio_data, portfolios>>
vars == <<selection, sp500_companies, provider, cache1, cache2, loader,
          events, pc, exception, loaded, ranking, output, ticker_choice,
          locals>>

NoException == "none"
\* an element put on the page: st.table, st.pyplot, st.line_chart, st.error
Element(kind, name, payload) == <<kind, name, payload>>

(* ------------------------------ provider ------------------------------- *)
Vols == 1..MaxVol
\* the series of the tickers of the large universe whose fetch is not free
BulkVol(t) == (t % MaxVol) + 1
\* what the first fetch of a universe ticker does: 0 fails (the next one
\* would succeed), v > 0 delivers a series of volatility v
Outcomes == 0..MaxVol

\* a series of volatility v with the first Open and the last Close of q
Series(v, q) == [vol |-> v, open |-> q[1], close |-> q[2]]
\* the first Open and the last Close a series can have on the pages that
\* show its total return: flat, worthless at first, worthless throughout
Quotes == {<<1, 1>>, <<0, 1>>, <<0, 0>>}

\* the provider of a page that fetches the universe of n tickers, the first
\* k of them with the outcomes o, and ^GSPC, which fails g times
UniverseProvider(n, k, o, g) ==
    /\ series = [t \in Known(n) |->
                    Series(IF t \in 1..k THEN (IF o[t] = 0 THEN 1 ELSE o[t])
                           ELSE IF t > k THEN BulkVol(t) ELSE 1,
                           <<1, 1>>)]
    /\ fails = [t \in Known(n) |->
                    IF t \in 1..k THEN (IF o[t] = 0 THEN 1 ELSE 0)
                    ELSE IF t = GSPC THEN g ELSE 0]

\* the provider of a page that fetches the tickers of T, nothing else
SingleProvider(T) ==
    /\ \E q \in [T -> Quotes] :
          series = [t \in Known(NSmall) |->
                       Series(1, IF t \in T THEN q[t] ELSE <<1, 1>>)]
    /\ \E f \in [T -> 0..MaxFails] :
          fails = [t \in Known(NSmall) |-> IF t \in T THEN f[t] ELSE 0]

(* -------------------------------- Init ---------------------------------- *)
\* lines 12-35 and 222-605: the state every page starts from
InitScript(n) ==
    /\ sp500_companies = DictLiteral(CompaniesLiteral(n))
    /\ downloads = [t \in Known(n) |-> 0]
    /\ cache1 = [t \in Known(n) |-> Miss]
    /\ cache2 = [t \in Known(n) |-> Miss]
    /\ ld_state = "idle"
    /\ ld_ticker = NoTicker
    /\ attempt = 0
    /\ ld_result = None
    /\ events = <<>>
    /\ pc = "start"
    /\ exception = NoException
    /\ loaded = <<>>
    /\ volatilities = <<>>
    /\ sorted_volatilities = <<>>
    /\ portfolio_data = <<>>
    /\ portfolios = <<>>
    /\ output = <<>>

InitRetrying ==
    /\ InitScript(NSmall)
    /\ locals = <<>>
    /\ max_retries = DefaultMaxRetries
    /\ \/ /\ selection = "S&P 500"
          /\ ticker_choice = NoTicker
          /\ SingleProvider({GSPC})
       \/ /\ selection = "Sector Analysis"
          /\ ticker_choice = NoTicker
          /\ SingleProvider({EtfTickers[i] : i \in 1..NEtf})
       \/ /\ selection = "Stock Analysis"
          /\ ticker_choice \in 1..NSmall
          /\ SingleProvider({ticker_choice})

InitPortfolio ==
    /\ ticker_choice = NoTicker
    /\ locals = <<>>
    /\ max_retries = DefaultMaxRetries
    /\ \E n \in {NSmall, NLarge} :
         LET k == IF n = NSmall THEN NSmall ELSE NFreeLarge
         IN /\ InitScript(n)
            /\ \E o \in [1..k -> Outcomes] :
                 \/ /\ selection = "Portfolio Comparison"
                    /\ UniverseProvider(n, k, o, 0)
                 \/ /\ selection = "3-Year Prediction"
                    /\ UniverseProvider(n, k, o, 0)
                 \/ /\ selection = "3-Year Prediction"
                    /\ o = [t \in 1..k |-> 1]
                    /\ UniverseProvider(n, k, o, 1)

Init == InitRetrying \/ InitPortfolio

(* ------------------- load_data, the retrying definition ---------------- *)
\* line 21: the st.cache_data wrapper of a call load_data(t, start, end,
\* max_retries = mr): a memoized result is returned without running the body
load_data_call(t, mr) ==
    /\ ld_state = "idle"
    /\ ld_ticker' = t
    /\ max_retries' = mr
    /\ IF cache1[t] # Miss
       THEN /\ ld_state' = "returned"
            /\ ld_result' = cache1[t]
            /\ UNCHANGED attempt
       ELSE /\ ld_state' = "running"
            /\ ld_result' = None
            /\ attempt' = 0

\* mutant: the loop gives up one attempt early
LoopConditionOffByOne == attempt < max_retries - 1

\* line 24: the condition of the while loop
LoopCondition == attempt < max_retries

\* lines 24-29: an iteration of the while loop whose download delivers a
\* non-empty frame, which is returned (and memoized by the wrapper)
load_data_success ==
    /\ ld_state = "running"
    /\ LoopCondition
    /\ fails[ld_ticker] = 0
    /\ downloads' = [downloads EXCEPT ![ld_ticker] = @ + 1]
    /\ events' = Append(events, <<"download", ld_ticker>>)
    /\ ld_result' = DataFrame(series[ld_ticker], downloads[ld_ticker] + 1)
    /\ cache1' = [cache1 EXCEPT ![ld_ticker] = ld_result']
    /\ ld_state' = "returned"
    /\ UNCHANGED <<series, fails, ld_ticker, max_retries, attempt>>

\* mutant: the failed attempt is not counted
load_data_failure_uncounted ==
    /\ ld_state = "running"
    /\ LoopCondition
    /\ fails[ld_ticker] > 0
    /\ downloads' = [downloads EXCEPT ![ld_ticker] = @ + 1]
    /\ fails' = [fails EXCEPT ![ld_ticker] = @ - 1]
    /\ events' = events \o << <<"download", ld_ticker>>,
                              <<"warning", ld_ticker>>,
                              <<"sleep", RetryDelay>> >>
    /\ UNCHANGED <<series, cache1, ld_state, ld_ticker, max_retries, ld_result,
                   attempt>>

\* lines 24-33: an iteration of the while loop whose download raises, or
\* delivers an empty frame, for which line 28 raises: the except clause
\* warns, counts the attempt and sleeps
load_data_failure ==
    /\ ld_state = "running"
    /\ LoopCondition
    /\ fails[ld_ticker] > 0
    /\ downloads' = [downloads EXCEPT ![ld_ticker] = @ + 1]
    /\ fails' = [fails EXCEPT ![ld_ticker] = @ - 1]
    /\ events' = events \o << <<"download", ld_ticker>>,
                              <<"warning", ld_ticker>>,
                              <<"sleep", RetryDelay>> >>
    /\ attempt' = attempt + 1
    /\ UNCHANGED <<series, cache1, ld_state, ld_ticker, max_retries, ld_result>>

\* mutant: None is returned without the error message of line 34
load_data_exhausted_silent ==
    /\ ld_state = "running"
    /\ ~LoopCondition
    /\ ld_result' = None
    /\ cache1' = [cache1 EXCEPT ![ld_ticker] = None]
    /\ ld_state' = "returned"
    /\ UNCHANGED <<provider, ld_ticker, max_retries, attempt, events>>

\* lines 34-35: the loop condition is false: error message, return None
load_data_exhausted ==
    /\ ld_state = "running"
    /\ ~LoopCondition
    /\ events' = Append(events, <<"error_after_attempts", ld_ticker>>)
    /\ ld_result' = None
    /\ cache1' = [cache1 EXCEPT ![ld_ticker] = None]
    /\ ld_state' = "returned"
    /\ UNCHANGED <<provider, ld_ticker, max_retries, attempt>>

\* the steps of a running call; they touch nothing of the calling page
load_data ==
    /\ \/ load_data_success
       \/ load_data_failure
       \/ load_data_exhausted
    /\ UNCHANGED <<selection, sp500_companies, cache2, pc, exception, loaded,
                   ranking, output, ticker_choice, locals>>

(* --------------------- pages on the retrying load_data ------------------ *)
\* what a page step leaves alone apart from the call it makes or consumes
PageFrame == UNCHANGED <<selection, sp500_companies, provider, cache1, cache2,
                         events, ranking, ticker_choice, locals>>

\* line 80: sp500 = load_data('^GSPC', start_date, end_date)
SP500_load ==
    /\ selection = "S&P 500" /\ pc = "start"
    /\ load_data_call(GSPC, DefaultMaxRetries)
    /\ pc' = "sp500"
    /\ UNCHANGED <<exception, loaded, output>>
    /\ PageFrame

\* lines 82-127: sp500.empty of None raises AttributeError; a frame is
\* rendered as a line chart and a table of statistics
SP500_render ==
    /\ pc = "sp500" /\ ld_state = "returned"
    /\ ld_state' = "idle"
    /\ loaded' = <<<<"sp500", ld_result>>>>
    /\ IF ld_result = None
       THEN /\ exception' = "AttributeError"
            /\ pc' = "crashed"
            /\ UNCHANGED output
       ELSE /\ output' = output \o <<Element("line_chart", "sp500", <<>>),
                                        Element("table", "sp500",
                                                Statistics(ld_result))>>
            /\ pc' = "done"
            /\ UNCHANGED exception
    /\ UNCHANGED <<ld_ticker, max_retries, attempt, ld_result>>
    /\ PageFrame

\* lines 152-153: the next iteration of the loop over sectors.items()
Sector_load ==
    /\ selection = "Sector Analysis" /\ pc = "start"
    /\ Len(loaded) < NEtf
    /\ load_data_call(EtfTickers[Len(loaded) + 1], DefaultMaxRetries)
    /\ pc' = "sector"
    /\ UNCHANGED <<exception, loaded, output>>
    /\ PageFrame

\* line 154: sector_data[sector] = data, None included
Sector_store ==
    /\ pc = "sector" /\ ld_state = "returned"
    /\ ld_state' = "idle"
    /\ loaded' = DictSet(loaded, Len(loaded) + 1, ld_result)
    /\ pc' = "start"
    /\ UNCHANGED <<ld_ticker, max_retries, attempt, ld_result, exception,
                   output>>
    /\ PageFrame

\* lines 157-191: data['Close'] of a None entry raises TypeError in the
\* plotting loop; otherwise the plot and the summary table are rendered
Sector_render ==
    /\ selection = "Sector Analysis" /\ pc = "start"
    /\ Len(loaded) = NEtf
    /\ IF \E i \in DOMAIN loaded : loaded[i][2] = None
       THEN /\ exception' = "TypeError"
            /\ pc' = "crashed"
            /\ UNCHANGED output
       ELSE /\ output' = output \o <<Element("pyplot", "sectors", <<>>),
                                        Element("table", "sectors",
                                                [i \in DOMAIN loaded |->
                                                    Statistics(loaded[i][2])])>>
            /\ pc' = "done"
            /\ UNCHANGED exception
    /\ UNCHANGED <<loader, loaded>>
    /\ PageFrame

\* lines 613-620: stock_data = load_data(ticker_choice, start_date, end_date)
Stock_load ==
    /\ selection = "Stock Analysis" /\ pc = "start"
    /\ ticker_choice \in {DictKeys(sp500_companies)[i] :
                             i \in DOMAIN sp500_companies}
    /\ load_data_call(ticker_choice, DefaultMaxRetries)
    /\ pc' = "stock"
    /\ UNCHANGED <<exception, loaded, output>>
    /\ PageFrame

\* lines 622-676: stock_data.empty of None raises AttributeError; a frame
\* is rendered as a chart, the stock information and a table
Stock_render ==
    /\ pc = "stock" /\ ld_state = "returned"
    /\ ld_state' = "idle"
    /\ loaded' = <<<<"stock_data", ld_result>>>>
    /\ IF ld_result = None
       THEN /\ exception' = "AttributeError"
            /\ pc' = "crashed"
            /\ UNCHANGED output
       ELSE /\ output' = output \o <<Element("line_chart", "stock", <<>>),
                                        Element("table", "stock",
                                                Statistics(ld_result))>>
            /\ pc' = "done"
            /\ UNCHANGED exception
    /\ UNCHANGED <<ld_ticker, max_retries, attempt, ld_result>>
    /\ PageFrame

(* -------------------- load_data, the second definition ------------------ *)
\* the state a loop of fetches threads through its calls
Env == [cache |-> cache2, fails |-> fails, downloads |-> downloads,
        events |-> events]

\* mutant: without st.cache_data, every call downloads
load_data_2_uncached(env, t) ==
    LET n == env.downloads[t] + 1
        ok == env.fails[t] = 0
        r == IF ok THEN DataFrame(series[t], n) ELSE None
    IN [env |-> [cache |-> [env.cache EXCEPT ![t] = r],
                 fails |-> [env.fails EXCEPT ![t] = IF ok THEN 0 ELSE @ - 1],
                 downloads |-> [env.downloads EXCEPT ![t] = n],
                 events |-> IF ok THEN env.events
                            ELSE Append(env.events,
                                        <<"error_failed_to_load", t>>)],
        result |-> r]

\* lines 678-687: the memoized result if there is one; else one download,
\* whose failure (exception or empty frame) is reported and gives None
load_data_2(env, t) ==
    IF env.cache[t] # Miss
    THEN [env |-> env, result |-> env.cache[t]]
    ELSE LET n == env.downloads[t] + 1
             ok == env.fails[t] = 0
             r == IF ok THEN DataFrame(series[t], n) ELSE None
         IN [env |-> [cache |-> [env.cache EXCEPT ![t] = r],
                      fails |-> [env.fails EXCEPT ![t] = IF ok THEN 0 ELSE @ - 1],
                      downloads |-> [env.downloads EXCEPT ![t] = n],
                      events |-> IF ok THEN env.events
                                 ELSE Append(env.events,
                                             <<"error_failed_to_load", t>>)],
             result |-> r]

\* data['Close'].pct_change().std() * np.sqrt(252)
Volatility(data) == data.vol

(* ------------------------- sorting and selection ------------------------ *)
\* the items of one volatility, in the order they have in items
EqualKey(items, v) == SelectSeq(items, LAMBDA e : e[2] = v)

RECURSIVE SortedBetween(_, _, _)
\* the items with a volatility in lo..hi: the highest volatility first,
\* items of equal volatility in their order in items
SortedBetween(items, lo, hi) ==
    IF hi < lo THEN <<>>
    ELSE EqualKey(items, hi) \o SortedBetween(items, lo, hi - 1)

RECURSIVE AscendingBetween(_, _, _)
AscendingBetween(items, lo, hi) ==
    IF hi < lo THEN <<>>
    ELSE EqualKey(items, lo) \o AscendingBetween(items, lo + 1, hi)

\* mutant: reverse=True is left out
SortedAscending(items) ==
    IF items = <<>> THEN <<>>
    ELSE LET keys == {items[i][2] : i \in DOMAIN items}
             lo == CHOOSE v \in keys : \A w \in keys : v <= w
             hi == CHOOSE v \in keys : \A w \in keys : w <= v
         IN AscendingBetween(items, lo, hi)

\* sorted(items, key=lambda x: x[1], reverse=True): descending and stable
Sorted(items) ==
    IF items = <<>> THEN <<>>
    ELSE LET keys == {items[i][2] : i \in DOMAIN items}
             lo == CHOOSE v \in keys : \A w \in keys : v <= w
             hi == CHOOSE v \in keys : \A w \in keys : w <= v
         IN SortedBetween(items, lo, hi)

\* [ticker for ticker, vol in s]
TickersOf(s) == [i \in DOMAIN s |-> s[i][1]]

\* the orders list(set(...)) can give the sector labels of the universe
SectorSet(companies) == {companies[i][2][2] : i \in DOMAIN companies}
SectorOrders(companies) ==
    LET S == SectorSet(companies)
    IN {p \in [1..Cardinality(S) -> S] :
           \A i, j \in DOMAIN p : i # j => p[i] # p[j]}

\* a loop that calls load_data for the tickers ts, one after the other.
\* A call touches the cache and the provider at its own ticker only, and a
\* ticker that comes again gets the memoized result of its first call: so
\* every ticker has the result of a call made in the state before the loop,
\* and the failures are reported in the order of the first occurrences
LoadLoop(env, ts) ==
    LET called == {ts[i] : i \in DOMAIN ts}
        after(t) == load_data_2(env, t).env
        failed == SelectSeq(FirstOccurrences(ts),
                            LAMBDA i : /\ env.cache[ts[i]] = Miss
                                       /\ env.fails[ts[i]] # 0)
    IN [env |->
          [cache |-> [t \in DOMAIN env.cache |->
                        IF t \in called THEN after(t).cache[t]
                        ELSE env.cache[t]],
           fails |-> [t \in DOMAIN env.cache |->
                        IF t \in called THEN after(t).fails[t]
                        ELSE env.fails[t]],
           downloads |-> [t \in DOMAIN env.cache |->
                        IF t \in called THEN after(t).downloads[t]
                        ELSE env.downloads[t]],
           events |-> env.events \o
                        [n \in DOMAIN failed |->
                            <<"error_failed_to_load", ts[failed[n]]>>]],
        results |-> [i \in DOMAIN ts |-> load_data_2(env, ts[i]).result]]

\* mutant: the loop ends at the first ticker that fails to load
VolatilityLoopBreak(companies, env) ==
    LET ts == DictKeys(companies)
        r == LoadLoop(env, ts)
        ok == SelectSeq(Indices(ts),
                        LAMBDA i : \A j \in 1..i : r.results[j] # None)
    IN [env |-> r.env,
        volatilities |->
           [n \in DOMAIN ok |-> <<ts[ok[n]], Volatility(r.results[ok[n]])>>]]

\* lines 695-700: the loop over the keys of sp500_companies;
\* volatilities[ticker] = volatility for every ticker whose data is not None
VolatilityLoop(companies, env) ==
    LET ts == DictKeys(companies)
        r == LoadLoop(env, ts)
        ok == SelectSeq(Indices(ts), LAMBDA i : r.results[i] # None)
    IN [env |-> r.env,
        volatilities |->
           [n \in DOMAIN ok |-> <<ts[ok[n]], Volatility(r.results[ok[n]])>>]]

(* ----------------------- Portfolio Comparison page ---------------------- *)
\* mutant: the slice starts behind the first entry
aggressive_portfolio_shifted(sv) == TickersOf(SubSeq(sv, 2, Min(AggressiveN + 1, Len(sv))))

\* line 709: the top 5 most volatile
aggressive_portfolio(sv) == TickersOf(SliceFirst(sv, AggressiveN))

\* mutant: sv[100:] instead of sv[-100:]
low_risk_portfolio_positive(sv) == TickersOf(SubSeq(sv, LowRiskN + 1, Len(sv)))

\* line 711: the bottom 100 least volatile
low_risk_portfolio(sv) == TickersOf(SliceLast(sv, LowRiskN))

\* line 716: the entries of the ranking whose ticker is of the sector
sector_stocks(sv, companies, sector) ==
    SelectSeq(sv, LAMBDA e : DictGet(companies, e[1])[2] = sector)

RECURSIVE diversified_portfolio_top(_, _, _, _)
\* mutant: the bottom 2 of a sector are not added
diversified_portfolio_top(sv, companies, sectors, n) ==
    IF n = 0 THEN <<>>
    ELSE LET stocks == sector_stocks(sv, companies, sectors[n])
         IN diversified_portfolio_top(sv, companies, sectors, n - 1)
              \o TickersOf(SliceFirst(stocks, SectorTopN))

RECURSIVE diversified_portfolio(_, _, _, _)
\* lines 713-718: after the first n sectors of the list
diversified_portfolio(sv, companies, sectors, n) ==
    IF n = 0 THEN <<>>
    ELSE LET stocks == sector_stocks(sv, companies, sectors[n])
         IN diversified_portfolio(sv, companies, sectors, n - 1)
              \o TickersOf(SliceFirst(stocks, SectorTopN))
              \o TickersOf(SliceLast(stocks, SectorTopN))

\* the state the steps of the two portfolio pages leave alone
PortfolioFrame == UNCHANGED <<selection, sp500_companies, series, cache1,
                              loader, exception, loaded, ticker_choice,
                              locals>>

\* lines 695-700: step 1, the volatility of every stock that loads
PC_volatilities ==
    /\ selection = "Portfolio Comparison" /\ pc = "start"
    /\ LET r == VolatilityLoop(sp500_companies, Env)
       IN /\ volatilities' = r.volatilities
          /\ cache2' = r.env.cache
          /\ fails' = r.env.fails
          /\ downloads' = r.env.downloads
          /\ events' = r.env.events
    /\ pc' = "volatilities"
    /\ UNCHANGED <<sorted_volatilities, portfolio_data, portfolios, output>>
    /\ PortfolioFrame

\* lines 702-703: no stock loaded
PC_no_data ==
    /\ selection = "Portfolio Comparison" /\ pc = "volatilities"
    /\ volatilities = <<>>
    /\ output' = Append(output, Element("error", "No valid data", <<>>))
    /\ pc' = "done"
    /\ UNCHANGED <<fails, downloads, cache2, events, ranking>>
    /\ PortfolioFrame

\* lines 704-725: steps 2 and 3, the ranking and the three portfolios
PC_portfolios ==
    /\ selection = "Portfolio Comparison" /\ pc = "volatilities"
    /\ volatilities # <<>>
    /\ sorted_volatilities' = Sorted(volatilities)
    /\ \E sectors \in SectorOrders(sp500_companies) :
         portfolio_data' =
            << <<"Aggressive", aggressive_portfolio(sorted_volatilities')>>,
               <<"Low-Risk", low_risk_portfolio(sorted_volatilities')>>,
               <<"Diversified",
                 diversified_portfolio(sorted_volatilities', sp500_companies,
                                       sectors, Len(sectors))>> >>
    /\ pc' = "portfolios"
    /\ UNCHANGED <<fails, downloads, cache2, events, volatilities, portfolios,
                   output>>
    /\ PortfolioFrame

\* mutant: a ticker is listed as valid once only
valid_tickers_distinct(tickers, env) ==
    LET r == LoadLoop(env, tickers)
        ok == SelectSeq(FirstOccurrences(tickers),
                        LAMBDA i : r.results[i] # None)
    IN [env |-> r.env, valid |-> [n \in DOMAIN ok |-> tickers[ok[n]]]]

\* lines 728-735: the loop over the tickers of a portfolio: the tickers
\* whose data is not None
valid_tickers(tickers, env) ==
    LET r == LoadLoop(env, tickers)
        ok == SelectSeq(Indices(tickers), LAMBDA i : r.results[i] # None)
    IN [env |-> r.env, valid |-> [n \in DOMAIN ok |-> tickers[ok[n]]]]

\* line 733: data['Close'].pct_change(), the return series of a frame
pct_change(data) == [kind |-> "returns", vol |-> data.vol, att |-> data.att]

\* mutant: a ticker listed twice contributes one return series only
portfolio_returns_distinct(tickers, env) ==
    LET r == LoadLoop(env, tickers)
        ok == SelectSeq(FirstOccurrences(tickers),
                        LAMBDA i : r.results[i] # None)
    IN [n \in DOMAIN ok |-> pct_change(r.results[ok[n]])]

\* lines 728-734: the loop over the tickers of a portfolio: the return
\* series of the tickers whose data is not None, one per ticker listed
portfolio_returns(tickers, env) ==
    LET r == LoadLoop(env, tickers)
        ok == SelectSeq(Indices(tickers), LAMBDA i : r.results[i] # None)
    IN [n \in DOMAIN ok |-> pct_change(r.results[ok[n]])]

RECURSIVE PortfolioLoop(_, _, _, _)
\* lines 727-767: after the first n iterations of the loop over
\* portfolio_data.items(): a portfolio with a return series gets the plot
\* of the mean of its return series and a summary table that names its
\* valid tickers
PortfolioLoop(data, env, out, n) ==
    IF n = 0 THEN [env |-> env, output |-> out]
    ELSE LET before == PortfolioLoop(data, env, out, n - 1)
             name == data[n][1]
             r == valid_tickers(data[n][2], before.env)
             returns == portfolio_returns(data[n][2], before.env)
         IN [env |-> r.env,
             output |->
                IF returns # <<>>
                THEN before.output \o <<Element("pyplot", name, returns),
                                        Element("table", name, r.valid)>>
                ELSE before.output]

\* lines 727-767: step 4
PC_aggregate ==
    /\ selection = "Portfolio Comparison" /\ pc = "portfolios"
    /\ LET r == PortfolioLoop(portfolio_data, Env, output,
                              Len(portfolio_data))
       IN /\ output' = r.output
          /\ cache2' = r.env.cache
          /\ fails' = r.env.fails
          /\ downloads' = r.env.downloads
          /\ events' = r.env.events
    /\ pc' = "done"
    /\ UNCHANGED ranking
    /\ PortfolioFrame

(* ------------------------- 3-Year Prediction page ----------------------- *)
\* mutant: the top 4 instead of the top 5
gp_aggressive_portfolio_four(sv) == TickersOf(SliceFirst(sv, AggressiveN - 1))

\* line 780
gp_aggressive_portfolio(sv) == TickersOf(SliceFirst(sv, AggressiveN))

\* mutant: the bottom 101 instead of the bottom 100
gp_low_risk_portfolio_wide(sv) == TickersOf(SliceLast(sv, LowRiskN + 1))

\* line 781
gp_low_risk_portfolio(sv) == TickersOf(SliceLast(sv, LowRiskN))

RECURSIVE gp_diversified_portfolio(_, _, _, _)
\* lines 783-788: after the first n sectors of the list
gp_diversified_portfolio(sv, companies, sectors, n) ==
    IF n = 0 THEN <<>>
    ELSE LET stocks ==
                SelectSeq(sv, LAMBDA e : DictGet(companies, e[1])[2] = sectors[n])
         IN gp_diversified_portfolio(sv, companies, sectors, n - 1)
              \o TickersOf(SliceFirst(stocks, SectorTopN))
              \o TickersOf(SliceLast(stocks, SectorTopN))

\* lines 771-776: the loop over the keys of sp500_companies
gp_volatilities(companies, env) ==
    LET ts == DictKeys(companies)
        r == LoadLoop(env, ts)
        ok == SelectSeq(Indices(ts), LAMBDA i : r.results[i] # None)
    IN [env |-> r.env,
        volatilities |->
           [n \in DOMAIN ok |-> <<ts[ok[n]], Volatility(r.results[ok[n]])>>]]

\* lines 770-794: get_portfolios(), its locals included, when list(set(...))
\* gives the sectors in this order
get_portfolios(companies, env, sectors) ==
    LET r == gp_volatilities(companies, env)
        sv == Sorted(r.volatilities)
    IN [env |-> r.env,
        volatilities |-> r.volatilities,
        sorted_volatilities |-> sv,
        portfolios |->
            << <<"Aggressive", gp_aggressive_portfolio(sv)>>,
               <<"Low-Risk", gp_low_risk_portfolio(sv)>>,
               <<"Diversified",
                 gp_diversified_portfolio(sv, companies, sectors,
                                          Len(sectors))>> >>]

\* lines 802-805: the S&P 500 series is loaded first; without it the page
\* reports an error and does nothing else
P3_load ==
    /\ selection = "3-Year Prediction" /\ pc = "start"
    /\ LET call == load_data_2(Env, GSPC)
       IN /\ cache2' = call.env.cache
          /\ fails' = call.env.fails
          /\ downloads' = call.env.downloads
          /\ events' = call.env.events
          /\ IF call.result = None
             THEN /\ output' = Append(output,
                                     Element("error", "Failed to load S&P 500",
                                             <<>>))
                  /\ pc' = "done"
             ELSE /\ pc' = "sp500"
                  /\ UNCHANGED output
    /\ UNCHANGED ranking
    /\ PortfolioFrame

\* line 808: portfolios = get_portfolios()
P3_get_portfolios ==
    /\ selection = "3-Year Prediction" /\ pc = "sp500"
    /\ \E sectors \in SectorOrders(sp500_companies) :
         LET r == get_portfolios(sp500_companies, Env, sectors)
         IN /\ volatilities' = r.volatilities
            /\ sorted_volatilities' = r.sorted_volatilities
            /\ portfolios' = r.portfolios
            /\ cache2' = r.env.cache
            /\ fails' = r.env.fails
            /\ downloads' = r.env.downloads
            /\ events' = r.env.events
    /\ pc' = "portfolios"
    /\ UNCHANGED <<portfolio_data, output>>
    /\ PortfolioFrame

\* lines 814-818: the loop over the tickers of a portfolio: the tickers
\* whose close series is collected
combined_values(tickers, env) ==
    LET r == LoadLoop(env, tickers)
        ok == SelectSeq(Indices(tickers), LAMBDA i : r.results[i] # None)
    IN [env |-> r.env, values |-> [n \in DOMAIN ok |-> tickers[ok[n]]]]

RECURSIVE PredictionLoopUnguarded(_, _, _, _)
\* mutant: the test of line 820 is left out
PredictionLoopUnguarded(data, env, out, n) ==
    IF n = 0 THEN [env |-> env, output |-> out]
    ELSE LET before == PredictionLoopUnguarded(data, env, out, n - 1)
             name == data[n][1]
             r == combined_values(data[n][2], before.env)
         IN [env |-> r.env,
             output |-> before.output \o <<Element("write", name, r.values),
                                           Element("pyplot", name, <<>>)>>]

RECURSIVE PredictionLoop(_, _, _, _)
\* lines 813-853: after the first n iterations of the loop over
\* portfolios.items(): a portfolio with values gets its expected return,
\* its R-squared and its plot
PredictionLoop(data, env, out, n) ==
    IF n = 0 THEN [env |-> env, output |-> out]
    ELSE LET before == PredictionLoop(data, env, out, n - 1)
             name == data[n][1]
             r == combined_values(data[n][2], before.env)
         IN [env |-> r.env,
             output |->
                IF r.values # <<>>
                THEN before.output \o <<Element("write", name, r.values),
                                        Element("pyplot", name, <<>>)>>
                ELSE before.output]

\* lines 810-871: the projections and the footnote
P3_predict ==
    /\ selection = "3-Year Prediction" /\ pc = "portfolios"
    /\ LET r == PredictionLoop(portfolios, Env, output, Len(portfolios))
       IN /\ output' = Append(r.output, Element("markdown", "Footnote", <<>>))
          /\ cache2' = r.env.cache
          /\ fails' = r.env.fails
          /\ downloads' = r.env.downloads
          /\ events' = r.env.events
    /\ pc' = "done"
    /\ UNCHANGED ranking
    /\ PortfolioFrame

(* ------------------------ load_data called directly -------------------- *)
\* lines 21-35 called on their own: load_data('^GSPC', start_date, end_date,
\* max_retries) with every max_retries of 0..MaxRetriesArg
InitLoad ==
    /\ InitScript(NSmall)
    /\ locals = <<>>
    /\ selection = "load_data"
    /\ ticker_choice = NoTicker
    /\ max_retries \in 0..MaxRetriesArg
    /\ SingleProvider({GSPC})

Direct_call ==
    /\ selection = "load_data" /\ pc = "start"
    /\ Len(loaded) < MaxCalls
    /\ load_data_call(GSPC, max_retries)
    /\ pc' = "called"
    /\ UNCHANGED <<exception, loaded, output>>
    /\ PageFrame

Direct_return ==
    /\ selection = "load_data" /\ pc = "called"
    /\ ld_state = "returned"
    /\ ld_state' = "idle"
    /\ loaded' = Append(loaded, <<"data", ld_result>>)
    /\ pc' = "start"
    /\ UNCHANGED <<ld_ticker, max_retries, attempt, ld_result, exception,
                   output>>
    /\ PageFrame

NextLoad == load_data \/ Direct_call \/ Direct_return

\* the same calls with every max_retries of -1..MaxRetriesArg
InitLoadSigned ==
    /\ InitScript(NSmall)
    /\ locals = <<>>
    /\ selection = "load_data"
    /\ ticker_choice = NoTicker
    /\ max_retries \in (0 - 1)..MaxRetriesArg
    /\ SingleProvider({GSPC})

SignedLoadSpec == InitLoadSigned /\ [][NextLoad]_vars

LoadSpec == InitLoad /\ [][NextLoad]_vars

\* the script runs on its own: a step that can be taken is taken
FairLoadSpec == LoadSpec /\ WF_vars(NextLoad)

(* ------------------- the mean of the return series --------------------- *)
\* a pandas Series is a function from the dates of its index to floats
\* pd.concat(columns, axis=1): the frame over the union of the indexes; a
\* column has NaN on the dates its series does not have
concat(columns) ==
    LET index == UNION {DOMAIN columns[i] : i \in DOMAIN columns}
    IN [index |-> index,
        columns |-> [i \in DOMAIN columns |->
                        [d \in index |-> IF d \in DOMAIN columns[i]
                                         THEN columns[i][d] ELSE NaN]]]

RECURSIVE nansum(_, _, _)
\* the sum of the values of row d in the first n columns that are not NaN
nansum(df, d, n) ==
    IF n = 0 THEN Float(0, 1)
    ELSE LET x == df.columns[n][d]
         IN IF x.kind = "nan" THEN nansum(df, d, n - 1)
            ELSE FAdd(nansum(df, d, n - 1), x)

\* the number of values of row d that are not NaN
count(df, d) ==
    Cardinality({i \in DOMAIN df.columns : df.columns[i][d].kind # "nan"})

\* mutant: a missing value counts as a return of zero
mean_fillna(df) ==
    [d \in df.index |->
        FDiv(nansum(df, d, Len(df.columns)), Float(Len(df.columns), 1))]

\* df.mean(axis=1), skipna=True: per date the mean of the values present,
\* NaN when there is none
mean(df) ==
    [d \in df.index |->
        IF count(df, d) = 0 THEN NaN
        ELSE FDiv(nansum(df, d, Len(df.columns)), Float(count(df, d), 1))]

\* line 738 run on its own, for every list of at most MaxCells values in all
Dates(n) == 1..n
\* the entries a series can have at a date: no row for the date, a NaN, or
\* a return of 1, 2 or 3 hundredths
Absent == [kind |-> "absent", num |-> 0, den |-> 0]
Cells == {Absent, NaN, Float(1, 100), Float(2, 100), Float(3, 100)}
\* the series of the entries c[1], .., c[n]
SeriesOf(c, n) ==
    [d \in {e \in Dates(n) : c[e] # Absent} |-> c[d]]

InitAggregate ==
    /\ InitScript(NSmall)
    /\ selection = "combined_returns"
    /\ ticker_choice = NoTicker
    /\ max_retries = DefaultMaxRetries
    /\ SingleProvider({})
    /\ \E k \in 1..MaxCells : \E n \in 1..MaxCells :
          /\ k * n <= MaxCells
          /\ \E c \in [1..k -> [Dates(n) -> Cells]] :
                /\ \A i \in 1..k : \E d \in Dates(n) : c[i][d] # Absent
                /\ locals = [portfolio_returns |->
                                [i \in 1..k |-> SeriesOf(c[i], n)],
                             combined_returns |-> <<>>]

\* line 738: combined_returns = pd.concat(portfolio_returns, axis=1).mean(axis=1)
Aggregate ==
    /\ selection = "combined_returns" /\ pc = "start"
    /\ locals' = [locals EXCEPT
                     !.combined_returns = mean(concat(locals.portfolio_returns))]
    /\ pc' = "done"
    /\ UNCHANGED <<selection, sp500_companies, provider, cache1, cache2,
                   loader, events, exception, loaded, ranking, output,
                   ticker_choice>>

NextAggregate == Aggregate

AggregateSpec == InitAggregate /\ [][NextAggregate]_vars

(* ----------------------- the linear projection ------------------------- *)
RECURSIVE SumTo(_, _)
\* the sum of the first n entries of a sequence of integers
SumTo(s, n) == IF n = 0 THEN 0 ELSE s[n] + SumTo(s, n - 1)
RECURSIVE FSumTo(_, _)
\* the sum of the first n entries of a sequence of floats
FSumTo(s, n) == IF n = 0 THEN Float(0, 1) ELSE FAdd(FSumTo(s, n - 1), s[n])

\* line 829: the number of days projected
Horizon == 3 * 365

\* mutant: the day indices start at 1
days_from_one(n) == [i \in 1..n |-> i]

\* line 824: days = np.array(range(len(portfolio_df)))
days(n) == [i \in 1..n |-> i - 1]

\* line 829: future_days = np.array(range(len(portfolio_df),
\* len(portfolio_df) + 3*365))
future_days(n) == [j \in 1..Horizon |-> n + j - 1]

\* LinearRegression().fit(X, y): ordinary least squares of the values y on
\* the day indices X; a single point gives the constant line through it
fit(X, y) ==
    LET n == Len(X)
        Sx == SumTo(X, n)
        Sy == SumTo(y, n)
        Sxx == SumTo([i \in 1..n |-> X[i] * X[i]], n)
        Sxy == SumTo([i \in 1..n |-> X[i] * y[i]], n)
        coef == IF n * Sxx - Sx * Sx = 0 THEN Float(0, 1)
                ELSE Float(n * Sxy - Sx * Sy, n * Sxx - Sx * Sx)
    IN [coef |-> coef,
        intercept |-> FDiv(FSub(Float(Sy, 1), FMul(coef, Float(Sx, 1))),
                           Float(n, 1))]

\* model.predict(X)
predict(model, X) ==
    [i \in DOMAIN X |-> FAdd(model.intercept, FMul(model.coef, Float(X[i], 1)))]

\* model.score(X, y), the R-squared of the predictions: NaN (and a warning)
\* for fewer than two samples; for constant values 1 when the fit is exact
score(model, X, y) ==
    LET n == Len(X)
        p == predict(model, X)
        mean_y == Float(SumTo(y, n), n)
        sq(x) == FMul(x, x)
        res == FSumTo([i \in 1..n |-> sq(FSub(Float(y[i], 1), p[i]))], n)
        tot == FSumTo([i \in 1..n |-> sq(FSub(Float(y[i], 1), mean_y))], n)
    IN IF n < 2 THEN NaN
       ELSE IF tot.num = 0
            THEN (IF res.num = 0 THEN Float(1, 1) ELSE Float(0, 1))
       ELSE FSub(Float(1, 1), FDiv(res, tot))

\* the values a mean closing price takes in the projection run on its own
Prices == {100, 102, 104, 106}

\* lines 820-853 run on their own for a portfolio whose mean closing prices
\* are any sequence of 1..MaxPoints prices
InitProject ==
    /\ InitScript(NSmall)
    /\ selection = "prediction"
    /\ ticker_choice = NoTicker
    /\ max_retries = DefaultMaxRetries
    /\ SingleProvider({})
    /\ \E n \in 1..MaxPoints : \E v \in [1..n -> Prices] :
          locals = [portfolio_df |-> v, prediction |-> <<>>,
                    expected_return |-> NaN, r_squared |-> NaN]

\* lines 821-853: the regression, the expected return, the R-squared, and
\* their display with the plot
Project ==
    /\ selection = "prediction" /\ pc = "start"
    /\ LET values == locals.portfolio_df
           n == Len(values)
           model == fit(days(n), values)
           prediction == predict(model, future_days(n))
           initial_value == Float(values[n], 1)
           final_value == prediction[Horizon]
           expected_return ==
               FMul(FDiv(FSub(final_value, initial_value), initial_value),
                    Float(100, 1))
           r_squared == score(model, days(n), values)
       IN /\ locals' = [portfolio_df |-> values, prediction |-> prediction,
                        expected_return |-> expected_return,
                        r_squared |-> r_squared]
          /\ output' = output \o
                <<Element("write", "Expected Return", expected_return),
                  Element("write", "R-squared", r_squared),
                  Element("pyplot", "Linear Estimation", <<>>)>>
    /\ pc' = "done"
    /\ UNCHANGED <<selection, sp500_companies, provider, cache1, cache2,
                   loader, events, exception, loaded, ranking, ticker_choice>>

NextProject == Project

ProjectSpec == InitProject /\ [][NextProject]_vars

(* --------------------------- the whole script --------------------------- *)
Next ==
    \/ load_data
    \/ SP500_load \/ SP500_render
    \/ Sector_load \/ Sector_store \/ Sector_render
    \/ Stock_load \/ Stock_render
    \/ PC_volatilities \/ PC_no_data \/ PC_portfolios \/ PC_aggregate
    \/ P3_load \/ P3_get_portfolios \/ P3_predict

Spec == Init /\ [][Next]_vars

(* ------------------------------- claims --------------------------------- *)
PortfolioPages == {"Portfolio Comparison", "3-Year Prediction"}

\* the ranking has been computed and the portfolios selected from it
HasPortfolios == selection \in PortfolioPages /\ pc = "portfolios"

\* the portfolios of the page that runs
Selected ==
    IF selection = "Portfolio Comparison" THEN portfolio_data ELSE portfolios

Range(s) == {s[i] : i \in DOMAIN s}
UniverseKeys == Range(DictKeys(sp500_companies))
SectorOfTicker(t) == DictGet(sp500_companies, t)[2]
\* the positions of the ranking whose ticker is of sector c
RankedIn(c) ==
    {i \in DOMAIN sorted_volatilities :
        SectorOfTicker(sorted_volatilities[i][1]) = c}

\* C1: the Diversified portfolio contains no symbol more than once
C1_DiversifiedHasNoDuplicate ==
    HasPortfolios =>
        LET d == DictGet(Selected, "Diversified")
        IN \A i, j \in DOMAIN d : i # j => d[i] # d[j]

\* the positions of the sub-ranking of sector c that have fewer than 2
\* positions of it before them, or fewer than 2 behind them
FirstAndLast2(c) ==
    LET same == RankedIn(c)
    IN {i \in same : \/ Cardinality({j \in same : j < i}) < SectorTopN
                     \/ Cardinality({j \in same : j > i}) < SectorTopN}

\* C2: the set of symbols of Diversified is the union, over the sectors of
\* the universe, of the first 2 and the last 2 entries of the sector's
\* sub-ranking
C2_DiversifiedSet ==
    HasPortfolios =>
        Range(DictGet(Selected, "Diversified")) =
            UNION {{sorted_volatilities[i][1] : i \in FirstAndLast2(c)} :
                       c \in SectorSet(sp500_companies)}

\* a sector with exactly 3 ranked members gives its 3 symbols, while a
\* symbol in the middle of a larger sector is left out
C2_Witness ==
    /\ HasPortfolios
    /\ \E c \in SectorSet(sp500_companies) :
          /\ Cardinality(RankedIn(c)) = 3
          /\ \A i \in RankedIn(c) :
                sorted_volatilities[i][1] \in
                    Range(DictGet(Selected, "Diversified"))
    /\ \E i \in DOMAIN sorted_volatilities :
          sorted_volatilities[i][1] \notin
              Range(DictGet(Selected, "Diversified"))

\* C3: Aggressive is the first 5 entries of the ranking, in rank order,
\* and the whole ranking when it has fewer than 5 entries
C3_AggressiveIsTop5 ==
    HasPortfolios =>
        LET a == DictGet(Selected, "Aggressive")
        IN /\ Len(a) = Min(AggressiveN, Len(sorted_volatilities))
           /\ \A i \in DOMAIN a : a[i] = sorted_volatilities[i][1]

C3_Witness ==
    /\ HasPortfolios
    /\ Len(sorted_volatilities) > AggressiveN
    /\ Len(DictGet(Selected, "Aggressive")) = AggressiveN

\* C4: Low-Risk is the last 100 entries of the ranking, in rank order; it
\* is the whole ranking when that has fewer than 100 entries, and then
\* holds every symbol of Aggressive too
C4_LowRiskIsBottom100 ==
    HasPortfolios =>
        LET l == DictGet(Selected, "Low-Risk")
            a == DictGet(Selected, "Aggressive")
            n == Len(sorted_volatilities)
        IN /\ Len(l) = Min(LowRiskN, n)
           /\ \A i \in DOMAIN l :
                 l[i] = sorted_volatilities[n - Len(l) + i][1]
           /\ n < LowRiskN => \A i \in DOMAIN a : a[i] \in Range(l)

C4_Witness ==
    /\ HasPortfolios
    /\ Len(sorted_volatilities) > LowRiskN
    /\ Len(DictGet(Selected, "Low-Risk")) = LowRiskN
    /\ DictGet(Selected, "Low-Risk")[1] = sorted_volatilities[
            Len(sorted_volatilities) - LowRiskN + 1][1]

\* the fetch of ticker t delivered a series
Loaded(t) == cache2[t].kind = "data"
\* the list r of (ticker, volatility) holds every loaded symbol of the
\* universe once and nothing else
HoldsTheLoaded(r) ==
    /\ \A t \in UniverseKeys :
          Cardinality({i \in DOMAIN r : r[i][1] = t}) =
              IF Loaded(t) THEN 1 ELSE 0
    /\ \A i \in DOMAIN r : r[i][1] \in UniverseKeys
    /\ r # <<>> <=> \E t \in UniverseKeys : Loaded(t)

\* C5: the ranking holds each symbol whose series loaded exactly once and
\* no symbol whose series failed; it is non-empty iff a symbol loaded
C5_RankingHoldsTheLoaded ==
    /\ (selection = "Portfolio Comparison" /\ pc = "volatilities")
          => HoldsTheLoaded(volatilities)
    /\ HasPortfolios => HoldsTheLoaded(sorted_volatilities)

\* a symbol failed and a symbol listed behind it in the universe is ranked
C5_Witness ==
    /\ HasPortfolios
    /\ \E t, u \in UniverseKeys :
          /\ t < u
          /\ cache2[t] = None
          /\ \E i \in DOMAIN sorted_volatilities :
                sorted_volatilities[i][1] = u

\* the place of ticker t among the keys of the universe mapping
KeyIndex(t) ==
    CHOOSE i \in DOMAIN sp500_companies : sp500_companies[i][1] = t

EventsOf(kind) == SelectSeq(events, LAMBDA e : e[1] = kind)
\* the failures the provider had in store for '^GSPC' at the start: those
\* still to come and those the warnings report
InitialFails == fails[GSPC] + Len(EventsOf("warning"))
\* the first direct call of load_data has returned
FirstCallReturned ==
    /\ selection = "load_data" /\ pc = "called"
    /\ ld_state = "returned" /\ loaded = <<>>

\* C7: if attempt k <= max_retries is the first to succeed (the provider
\* fails k - 1 times), load_data returns the data of attempt k and no
\* terminal error is emitted
C7_FirstSuccessIsReturned ==
    (FirstCallReturned /\ InitialFails < max_retries) =>
        /\ ld_result = DataFrame(series[GSPC], InitialFails + 1)
        /\ EventsOf("error_after_attempts") = <<>>

\* 2 failures, then the 3rd attempt of max_retries = 3 succeeds
C7_Witness ==
    /\ FirstCallReturned
    /\ max_retries = DefaultMaxRetries
    /\ InitialFails = 2
    /\ ld_result = DataFrame(series[GSPC], 3)

\* C8: a call makes at most max_retries fetch attempts, returns None when
\* they all fail, and a running call always returns
C8_LoadDataTerminates ==
    /\ [](/\ attempt <= max_retries
          /\ downloads[GSPC] <= max_retries
          /\ (FirstCallReturned /\ InitialFails >= max_retries)
                => ld_result = None)
    /\ (ld_state = "running") ~> (ld_state = "returned")

\* all of max_retries >= 2 attempts failed and None is returned
C8_Witness ==
    /\ FirstCallReturned
    /\ max_retries >= 2
    /\ downloads[GSPC] = max_retries
    /\ Len(EventsOf("warning")) = max_retries
    /\ ld_result = None

\* C9: on every page a symbol is declared failed (None) only after
\* max_retries = 3 fetch attempts
C9_EveryFetchIsRetried ==
    \A t \in DOMAIN downloads :
        (cache1[t] = None \/ cache2[t] = None)
            => downloads[t] >= DefaultMaxRetries

\* C10: no page ends with an unhandled exception
C10_NoUnhandledException == exception = NoException

\* the kinds of the elements the page has rendered
OutputKinds == {output[i][1] : i \in DOMAIN output}
\* a portfolio page has run to its end and every fetch of a symbol of the
\* universe failed
EmptyUniverseResult ==
    /\ selection \in PortfolioPages /\ pc = "done"
    /\ \A t \in UniverseKeys : cache2[t] = None

\* C11: when every symbol of the universe fails to load, the Portfolio
\* Comparison page and the 3-Year Prediction page each report an error for
\* the empty universe and render no table, no chart and no projection
C11_EmptyUniverseIsReported ==
    EmptyUniverseResult =>
        /\ "error" \in OutputKinds
        /\ OutputKinds \cap {"table", "pyplot", "write"} = {}

\* the payload of the element of a kind the page rendered for a portfolio
Rendered(kind, name) ==
    LET at == {i \in DOMAIN output : output[i][1] = kind /\ output[i][2] = name}
    IN output[CHOOSE i \in at : TRUE][3]
HasRendered(kind, name) ==
    \E i \in DOMAIN output : output[i][1] = kind /\ output[i][2] = name
\* the number of symbols a selection rule can give at most
NominalSize(name) ==
    IF name = "Aggressive" THEN AggressiveN
    ELSE IF name = "Low-Risk" THEN LowRiskN
    ELSE 2 * SectorTopN * Cardinality(SectorSet(sp500_companies))
\* the Portfolio Comparison page has aggregated its portfolios
Aggregated == selection = "Portfolio Comparison" /\ pc = "done"
                 /\ portfolio_data # <<>>

AggregateDone == selection = "combined_returns" /\ pc = "done"
\* a return in hundredths
Hundredths(x) == x.num * (100 \div x.den)
RECURSIVE SumHundredths(_, _, _)
\* the sum, in hundredths, of the returns the series of S have on date d
SumHundredths(rs, S, d) ==
    IF S = {} THEN 0
    ELSE LET i == CHOOSE j \in S : TRUE
         IN Hundredths(rs[i][d]) + SumHundredths(rs, S \ {i}, d)

\* C13: the combined series has the union of the constituents' dates; on
\* each date it is the sum of the returns present divided by the number of
\* constituents that have a return on that date, and missing when no
\* constituent has one
C13_MeanOfThePresent ==
    AggregateDone =>
        LET rs == locals.portfolio_returns
            cr == locals.combined_returns
        IN /\ DOMAIN cr = UNION {DOMAIN rs[i] : i \in DOMAIN rs}
           /\ \A d \in DOMAIN cr :
                 LET present == {i \in DOMAIN rs :
                                    d \in DOMAIN rs[i] /\ IsFinite(rs[i][d])}
                 IN IF present = {} THEN cr[d] = NaN
                    ELSE cr[d] = Float(SumHundredths(rs, present, d),
                                       100 * Cardinality(present))

\* A = [0.01, missing, 0.02] and B = [0.02, 0.03, missing] give
\* [0.015, 0.03, 0.02]
C13_Witness ==
    /\ AggregateDone
    /\ locals.portfolio_returns =
          << (1 :> Float(1, 100) @@ 2 :> NaN @@ 3 :> Float(2, 100)),
             (1 :> Float(2, 100) @@ 2 :> Float(3, 100)) >>
    /\ locals.combined_returns =
          (1 :> Float(15, 1000) @@ 2 :> Float(3, 100) @@ 3 :> Float(2, 100))

\* a portfolio page has run to its end
PageDone == selection \in PortfolioPages /\ pc = "done"

\* C14: a portfolio none of whose constituents loaded gets no return
\* series, no statistics table, no chart and no projection: the page
\* renders nothing under its name, so no total return of zero either
C14_NothingForTheUnloaded ==
    PageDone =>
        \A p \in DOMAIN Selected :
            (\A i \in DOMAIN Selected[p][2] : ~Loaded(Selected[p][2][i]))
                => \A j \in DOMAIN output : output[j][2] # Selected[p][1]

\* the three portfolios were selected, none of them has a constituent
\* that loaded, and the page has ended
C14_Witness ==
    /\ PageDone
    /\ Len(Selected) = 3
    /\ \A p \in DOMAIN Selected :
          \A i \in DOMAIN Selected[p][2] : ~Loaded(Selected[p][2][i])
    /\ output # <<>>

\* the projection run on its own has ended
ProjectDone == selection = "prediction" /\ pc = "done"
\* the values v are on a line
IsLinear(v) == \A i \in DOMAIN v : v[i] = v[1] + (v[2] - v[1]) * (i - 1)

\* C15: for a history of n >= 2 values the prediction has one value for
\* each of the day indices n..n+Horizon-1, on the line that is the least
\* squares fit of the history against the day indices 0..n-1 (the
\* residuals and the residuals weighted by their index sum to zero); an
\* exactly linear history is continued with R-squared 1; and the expected
\* return is (prediction at n+Horizon-1 - last value) / last value * 100
C15_ProjectionContinuesTheLine ==
    (ProjectDone /\ Len(locals.portfolio_df) >= 2) =>
        LET y == locals.portfolio_df
            n == Len(y)
            pr == locals.prediction
            b == FSub(pr[2], pr[1])
            a == FSub(pr[1], FMul(b, Float(n, 1)))
            line(x) == FAdd(a, FMul(b, Float(x, 1)))
            r(i) == FSub(Float(y[i], 1), line(i - 1))
        IN /\ Len(pr) = Horizon
           /\ \A j \in 1..Horizon : pr[j] = line(n + j - 1)
           /\ FSumTo([i \in 1..n |-> r(i)], n) = Float(0, 1)
           /\ FSumTo([i \in 1..n |-> FMul(Float(i - 1, 1), r(i))], n)
                 = Float(0, 1)
           /\ IsLinear(y) =>
                 /\ \A j \in 1..Horizon :
                       pr[j] = Float(y[1] + (y[2] - y[1]) * (n + j - 1), 1)
                 /\ locals.r_squared = Float(1, 1)
           /\ FMul(locals.expected_return, Float(y[n], 1))
                 = FMul(FSub(pr[Horizon], Float(y[n], 1)), Float(100, 1))

\* the history [100, 102, 104, 106] is continued with 108 and 110, and
\* has an R-squared of 1
C15_Witness ==
    /\ ProjectDone
    /\ locals.portfolio_df = <<100, 102, 104, 106>>
    /\ locals.prediction[1] = Float(108, 1)
    /\ locals.prediction[2] = Float(110, 1)
    /\ locals.r_squared = Float(1, 1)
    /\ locals.expected_return = Float((2296 - 106) * 100, 106)

\* C16: for a history of fewer than 2 values the projection is skipped and
\* "insufficient data" is reported: no expected return and no R-squared
\* are displayed
C16_ShortHistoryIsSkipped ==
    (ProjectDone /\ Len(locals.portfolio_df) < 2) =>
        /\ \E j \in DOMAIN output : output[j][2] = "insufficient data"
        /\ \A j \in DOMAIN output : output[j][1] # "write"

\* a page that shows the total return and the CAGR of a series has ended
StatisticsDone ==
    selection \in {"S&P 500", "Sector Analysis", "Stock Analysis"} /\ pc = "done"
\* the statistics the page shows, one record for each series
StatisticsShown ==
    IF selection = "S&P 500" THEN {Rendered("table", "sp500")}
    ELSE IF selection = "Stock Analysis" THEN {Rendered("table", "stock")}
    ELSE Range(Rendered("table", "sectors"))

\* C17: for a series whose opening value is 0 the S&P 500, Sector Analysis
\* and Stock Analysis pages show "undefined" as total return and as CAGR,
\* not zero, infinity or NaN
C17_ZeroOpenIsUndefined ==
    StatisticsDone =>
        \A st \in StatisticsShown :
            st.opening_value = 0 =>
                /\ st.total_return.text = "undefined"
                /\ st.cagr.text = "undefined"

\* C18: the provider is contacted for a key by one call at most: a key
\* memoized by the second load_data has been fetched once, a key memoized
\* by the retrying load_data has been fetched by the attempts of its first
\* call only, every call returns what the first one returned, and so each
\* symbol of a portfolio loads again in the aggregation pass
C18_OneCallFetchesAKey ==
    /\ \A t \in DOMAIN downloads :
          /\ cache2[t] # Miss => downloads[t] = 1
          /\ cache2[t].kind = "data" => cache2[t].att = 1
          /\ cache1[t].kind = "data" => downloads[t] = cache1[t].att
          /\ cache1[t] = None => downloads[t] = max_retries
    /\ \A i \in DOMAIN loaded :
          selection = "load_data" => loaded[i][2] = loaded[1][2]
    /\ Aggregated =>
          \A p \in DOMAIN portfolio_data :
              Rendered("table", portfolio_data[p][1]) = portfolio_data[p][2]

\* a symbol of Aggressive and of Low-Risk was asked for in the ranking pass
\* and twice in the aggregation pass, and was downloaded once
C18_Witness ==
    /\ Aggregated
    /\ \E t \in Range(DictGet(portfolio_data, "Aggressive")) :
          /\ t \in Range(DictGet(portfolio_data, "Low-Risk"))
          /\ t \in Range(Rendered("table", "Low-Risk"))
          /\ downloads[t] = 1

\* C19: the ranking and the three symbol sequences are functions of the
\* fetch results and the universe: whatever order list(set(...)) gives the
\* sectors in, the page selects the same sequences
C19_SelectionIsDeterministic ==
    HasPortfolios =>
        /\ sorted_volatilities = Sorted(volatilities)
        /\ DictGet(Selected, "Aggressive")
              = aggressive_portfolio(sorted_volatilities)
        /\ DictGet(Selected, "Low-Risk")
              = low_risk_portfolio(sorted_volatilities)
        /\ \A sectors \in SectorOrders(sp500_companies) :
              DictGet(Selected, "Diversified")
                 = diversified_portfolio(sorted_volatilities, sp500_companies,
                                         sectors, Len(sectors))

\* lines 694-725: the inline ranking and selection of the Portfolio
\* Comparison page, when list(set(...)) gives the sectors in this order
InlineSelection(companies, env, sectors) ==
    LET sv == Sorted(VolatilityLoop(companies, env).volatilities)
    IN << <<"Aggressive", aggressive_portfolio(sv)>>,
          <<"Low-Risk", low_risk_portfolio(sv)>>,
          <<"Diversified",
            diversified_portfolio(sv, companies, sectors, Len(sectors))>> >>

\* C20: on the same fetch outcomes (those memoized by the page) and the
\* same order of the sectors, get_portfolios returns the portfolios the
\* Portfolio Comparison page has selected inline, and the inline selection
\* gives the portfolios get_portfolios has returned to the 3-Year
\* Prediction page, whenever the ranking is not empty
C20_GetPortfoliosIsTheInlineSelection ==
    (HasPortfolios /\ sorted_volatilities # <<>>) =>
        \A sectors \in SectorOrders(sp500_companies) :
            IF selection = "Portfolio Comparison"
            THEN (DictGet(portfolio_data, "Diversified")
                     = diversified_portfolio(sorted_volatilities,
                                             sp500_companies, sectors,
                                             Len(sectors)))
                   => get_portfolios(sp500_companies, Env, sectors).portfolios
                         = portfolio_data
            ELSE (DictGet(portfolios, "Diversified")
                     = gp_diversified_portfolio(sorted_volatilities,
                                                sp500_companies, sectors,
                                                Len(sectors)))
                   => InlineSelection(sp500_companies, Env, sectors)
                         = portfolios

\* the Portfolio Comparison page has selected from a ranking of more than
\* 5 symbols of 2 sectors after a symbol failed, and get_portfolios gives
\* the same portfolios
C20_Witness ==
    /\ selection = "Portfolio Comparison" /\ pc = "portfolios"
    /\ Len(sorted_volatilities) > AggressiveN
    /\ \E t \in UniverseKeys : cache2[t] = None
    /\ \E i, j \in DOMAIN sorted_volatilities :
          SectorOfTicker(sorted_volatilities[i][1])
             # SectorOfTicker(sorted_volatilities[j][1])
    /\ \E sectors \in SectorOrders(sp500_companies) :
          get_portfolios(sp500_companies, Env, sectors).portfolios
             = portfolio_data

\* C21: the events of a call of the retrying load_data are k times a
\* download that fails, one warning and one wait of retry_delay, in this
\* order, and then either the download that succeeds, after which the
\* call has returned its frame, or the terminal error, once, after exactly
\* max_retries failures, with None returned; with max_retries <= 0 there
\* is no download
C21_EventsOfACall ==
    LET k == Len(EventsOf("warning"))
        limit == Max(0, max_retries)
        returned == loaded # <<>> \/ ld_state = "returned"
        result == IF loaded # <<>> THEN loaded[1][2] ELSE ld_result
    IN /\ k <= limit
       /\ \A j \in 1..k :
             /\ events[3 * j - 2] = <<"download", GSPC>>
             /\ events[3 * j - 1] = <<"warning", GSPC>>
             /\ events[3 * j] = <<"sleep", RetryDelay>>
       /\ IF returned
          THEN /\ Len(events) = 3 * k + 1
               /\ \/ /\ events[3 * k + 1] = <<"download", GSPC>>
                     /\ result = DataFrame(series[GSPC], k + 1)
                  \/ /\ events[3 * k + 1] = <<"error_after_attempts", GSPC>>
                     /\ k = limit
                     /\ result = None
          ELSE Len(events) = 3 * k
       /\ max_retries <= 0 => EventsOf("download") = <<>>

\* a call with max_retries = 2 has failed twice, waited after the second
\* failure too, emitted the terminal error and returned None
C21_Witness ==
    /\ FirstCallReturned
    /\ max_retries = 2
    /\ events = << <<"download", GSPC>>, <<"warning", GSPC>>,
                   <<"sleep", RetryDelay>>,
                   <<"download", GSPC>>, <<"warning", GSPC>>,
                   <<"sleep", RetryDelay>>,
                   <<"error_after_attempts", GSPC>> >>
    /\ ld_result = None

\* the symbols of the ranking
Ranked == Range(TickersOf(sorted_volatilities))

\* C22: Aggressive and Low-Risk share no symbol when the ranking has at
\* least 105 entries and share a symbol when it has 1 to 104 entries; a
\* symbol of any of the three portfolios is a symbol of the ranking
C22_AggressiveMeetsLowRisk ==
    HasPortfolios =>
        LET n == Len(sorted_volatilities)
            shared == Range(DictGet(Selected, "Aggressive"))
                         \cap Range(DictGet(Selected, "Low-Risk"))
        IN /\ n >= AggressiveN + LowRiskN => shared = {}
           /\ (1 <= n /\ n < AggressiveN + LowRiskN) => shared # {}
           /\ \A p \in DOMAIN Selected : Range(Selected[p][2]) \subseteq Ranked

\* a ranking of exactly 105 entries, whose 5th symbol is in Aggressive and
\* whose 6th is the first of Low-Risk
C22_Witness ==
    /\ HasPortfolios
    /\ Len(sorted_volatilities) = AggressiveN + LowRiskN
    /\ DictGet(Selected, "Aggressive")[AggressiveN]
          = sorted_volatilities[AggressiveN][1]
    /\ DictGet(Selected, "Low-Risk")[1]
          = sorted_volatilities[AggressiveN + 1][1]
    /\ Range(DictGet(Selected, "Aggressive"))
          \cap Range(DictGet(Selected, "Low-Risk")) = {}

\* C23: on the Portfolio Comparison page every selected symbol has a
\* memoized frame from the ranking pass, so in the aggregation pass the
\* list of valid tickers is the selected list entry for entry, each entry
\* contributes the return series of that frame, and every portfolio that
\* is not empty gets its plot and its table
C23_AggregationLoadsEverySelected ==
    /\ (selection = "Portfolio Comparison" /\ pc = "portfolios") =>
          \A p \in DOMAIN portfolio_data :
              \A i \in DOMAIN portfolio_data[p][2] :
                  Loaded(portfolio_data[p][2][i])
    /\ Aggregated =>
          \A p \in DOMAIN portfolio_data :
              LET name == portfolio_data[p][1]
                  tickers == portfolio_data[p][2]
              IN tickers # <<>> =>
                    /\ HasRendered("pyplot", name)
                    /\ HasRendered("table", name)
                    /\ Rendered("table", name) = tickers
                    /\ Rendered("pyplot", name)
                          = [i \in DOMAIN tickers |->
                                pct_change(cache2[tickers[i]])]

\* the page has aggregated a Low-Risk portfolio of 100 symbols after a
\* symbol of the universe failed in the ranking pass, and a Diversified
\* portfolio that lists a symbol twice
C23_Witness ==
    /\ Aggregated
    /\ \E t \in UniverseKeys : cache2[t] = None
    /\ Len(Rendered("table", "Low-Risk")) = LowRiskN
    /\ Len(Rendered("table", "Diversified"))
          > Cardinality(Range(Rendered("table", "Diversified")))

====
